---------------------------- MODULE Spec2Model ----------------------------
(***************************************************************************)
(* Model of apache_beam/runners/direct/direct_runner.py: the result handle *)
(* (DirectPipelineResult), the Pub/Sub write adapter                       *)
(* (_DirectWriteToPubSubFn), the override list (_get_transform_overrides)  *)
(* and the two run_pipeline methods (SwitchingDirectRunner,                *)
(* BundleBasedDirectRunner).                                               *)
(***************************************************************************)
EXTENDS Integers, Sequences, FiniteSets, TLC

VARIABLES
  \* ---- DirectPipelineResult and the Executor it holds
  state,           \* DirectPipelineResult._state
  pc,              \* per thread: where it stands inside its current call
  op,              \* per thread: the call it is in / last made
  dur,             \* per thread: the duration argument of that call
  trace,           \* per thread: what that call has done so far, in order
  ret,             \* per thread: how its last call ended
  exec,            \* the Executor: running, quiesced or failed
  calls,           \* calls started on the handle so far
  failuresRaised,  \* times wait_until_finish re-raised the worker failure
  released,        \* the handle has been garbage-collected (__del__ has run)
  warned,          \* __del__ logged the warning
  raced,           \* a cancel() began on a RUNNING handle while a thread was
                   \* inside await_completion
  \* ---- _DirectWriteToPubSubFn and the bundle that drives it
  buffer,          \* _DirectWriteToPubSubFn._buffer
  wphase,          \* idle (no bundle), open (after start_bundle), aborted
  nInBundle,       \* elements passed to process() in the current bundle
  bundles,         \* bundles started so far
  submitted,       \* elements handed to the client in the current bundle
  lastOp,          \* the DoFn method called last
  lastFlushed,     \* whether that call entered _flush
  lastFlushLen,    \* the buffered count when it did (0 when it did not)
  lastRaised,      \* whether that call raised
  failedFlushes,   \* flushes that raised so far
  sink,            \* the sink the DoFn was built from: id_label, timestamp_attribute
  \* ---- one run_pipeline call
  graph,           \* the pipeline's steps, as the run has rewritten them so far
  graph0,          \* the steps the pipeline was given to the run with
  streaming,       \* StandardOptions.streaming
  pubsubAvail,     \* apache_beam.io.gcp.pubsub can be imported
  grpcAvail,       \* grpc can be imported
  rphase,          \* how far the run has come
  chosen,          \* the runner SwitchingDirectRunner delegates to
  runError,        \* the exception the run ended with, or "none"
  replacedCount,   \* steps replace_all put a new step for
  pubsubMatched,   \* a Pub/Sub override matched some step
  clock,           \* the clock chosen for the EvaluationContext
  contextBuilt,    \* the EvaluationContext exists
  startCalls,      \* calls of Executor.start
  resultState,     \* the state of the returned DirectPipelineResult, or "none"
  ctxClock,        \* the clock the EvaluationContext was built with
  ctxGraph,        \* the steps ConsumerTrackingPipelineVisitor visited
  runTrace,        \* what the bundle-based run has done so far, in order
  \* ---- the acknowledgment loop of one _flush call
  fphase,          \* idle, loop (between waits), waiting (in result()), done, raised
  futuresLeft,     \* futures the loop has not waited for yet
  elapsed,         \* time.time() - timer_start, in time units
  remaining,       \* the wait value computed last
  waited,          \* time spent inside result() so far
  overhead         \* time that passed in this iteration outside result()

hvars == <<state, pc, op, dur, trace, ret, exec, calls, failuresRaised,
           released, warned, raced>>

wvars == <<buffer, wphase, nInBundle, bundles, submitted, lastOp, lastFlushed,
           lastFlushLen, lastRaised, failedFlushes, sink>>

rvars == <<graph, graph0, streaming, pubsubAvail, grpcAvail, rphase, chosen,
           runError, replacedCount, pubsubMatched, clock, contextBuilt,
           startCalls, resultState, ctxClock, ctxGraph, runTrace>>

fvars == <<fphase, futuresLeft, elapsed, remaining, waited, overhead>>

vars == <<hvars, wvars, rvars, fvars>>

-----------------------------------------------------------------------------
(* Bounds *)

MaxCalls == 4
MaxDuration == 1
MaxElems == 201
MaxBundles == 2
MaxSteps == 2
MaxFutures == 3     \* futures of one flush
MaxOverhead == 1    \* time units one loop iteration takes outside result()

-----------------------------------------------------------------------------
(* PipelineState and the handle's callers *)

Threads == {"t1", "t2"}

States == {"RUNNING", "DONE", "FAILED", "CANCELLING", "CANCELLED"}

\* duration=None, the default of wait_until_finish
NoDuration == -1

Durations == {NoDuration} \cup (0..MaxDuration)

\* PipelineState.is_terminal, as used on line 433; of the five states of the
\* handle it holds for DONE, FAILED and CANCELLED
IsTerminal(s) == s \in {"DONE", "FAILED", "CANCELLED"}

\* `if duration:` -- Python truth of the argument: None and 0 are false
Truthy(d) == d # NoDuration /\ d # 0

Ev(kind, arg) == <<kind, arg>>

HandleInit ==
  /\ state = "RUNNING"
  /\ pc = [t \in Threads |-> "idle"]
  /\ op = [t \in Threads |-> "none"]
  /\ dur = [t \in Threads |-> NoDuration]
  /\ trace = [t \in Threads |-> <<>>]
  /\ ret = [t \in Threads |-> "none"]
  /\ exec = "running"
  /\ calls = 0
  /\ failuresRaised = 0
  /\ released = FALSE
  /\ warned = FALSE
  /\ raced = FALSE

-----------------------------------------------------------------------------
(* Executor (executor.py): the worker pool quiesces or a worker fails *)

Quiesce ==
  /\ exec = "running"
  /\ exec' = "quiesced"
  /\ UNCHANGED <<state, pc, op, dur, trace, ret, calls, failuresRaised>>

WorkerFail ==
  /\ exec = "running"
  /\ exec' = "failed"
  /\ UNCHANGED <<state, pc, op, dur, trace, ret, calls, failuresRaised>>

-----------------------------------------------------------------------------
(* DirectPipelineResult.wait_until_finish *)

\* lines 432-438 with the outcome of the terminal test given: the duration
\* test, the call of await_completion
WaitEnter(t, d, terminal) ==
  /\ ~released
  /\ pc[t] = "idle"
  /\ calls < MaxCalls
  /\ calls' = calls + 1
  /\ op' = [op EXCEPT ![t] = "wait"]
  /\ dur' = [dur EXCEPT ![t] = d]
  /\ IF ~terminal
       THEN IF Truthy(d)
              THEN /\ trace' = [trace EXCEPT ![t] =
                          <<Ev("check", state), Ev("raise", "NotImplementedError")>>]
                   /\ ret' = [ret EXCEPT ![t] = "NotImplementedError"]
                   /\ pc' = pc
              ELSE /\ trace' = [trace EXCEPT ![t] =
                          <<Ev("check", state), Ev("await_completion", "call")>>]
                   /\ ret' = [ret EXCEPT ![t] = "none"]
                   /\ pc' = [pc EXCEPT ![t] = "w_await"]
       ELSE /\ trace' = [trace EXCEPT ![t] = <<Ev("check", state)>>]
            /\ ret' = [ret EXCEPT ![t] = "none"]
            /\ pc' = [pc EXCEPT ![t] = "w_ret"]
  /\ UNCHANGED <<state, exec, failuresRaised>>

\* wait_until_finish without the terminal test of line 433
WaitCallUnguarded(t, d) == WaitEnter(t, d, FALSE)

\* lines 432-438: the terminal test, the duration test, the call of
\* await_completion
WaitCall(t, d) == WaitEnter(t, d, IsTerminal(state))

\* lines 438-439: await_completion returns, the state becomes DONE
AwaitReturn(t) ==
  /\ pc[t] = "w_await"
  /\ exec = "quiesced"
  /\ state' = "DONE"
  /\ trace' = [trace EXCEPT ![t] = Append(@, Ev("set", "DONE"))]
  /\ pc' = [pc EXCEPT ![t] = "w_ret"]
  /\ UNCHANGED <<op, dur, ret, exec, calls, failuresRaised>>

\* lines 440-442: await_completion raises, the state becomes FAILED and the
\* failure is raised again
AwaitRaise(t) ==
  /\ pc[t] = "w_await"
  /\ exec = "failed"
  /\ state' = "FAILED"
  /\ trace' = [trace EXCEPT ![t] =
                 @ \o <<Ev("set", "FAILED"), Ev("raise", "WorkerFailure")>>]
  /\ ret' = [ret EXCEPT ![t] = "WorkerFailure"]
  /\ failuresRaised' = failuresRaised + 1
  /\ pc' = [pc EXCEPT ![t] = "idle"]
  /\ UNCHANGED <<op, dur, exec, calls>>

\* line 443: return self._state
WaitReturn(t) ==
  /\ pc[t] = "w_ret"
  /\ trace' = [trace EXCEPT ![t] = Append(@, Ev("return", state))]
  /\ ret' = [ret EXCEPT ![t] = state]
  /\ pc' = [pc EXCEPT ![t] = "idle"]
  /\ UNCHANGED <<state, op, dur, exec, calls, failuresRaised>>

-----------------------------------------------------------------------------
(* DirectPipelineResult.cancel *)

\* line 457
CancelBegin(t) ==
  /\ ~released
  /\ raced' = (raced \/ (state = "RUNNING" /\ \E u \in Threads : pc[u] = "w_await"))
  /\ pc[t] = "idle"
  /\ calls < MaxCalls
  /\ calls' = calls + 1
  /\ op' = [op EXCEPT ![t] = "cancel"]
  /\ dur' = [dur EXCEPT ![t] = NoDuration]
  /\ state' = "CANCELLING"
  /\ trace' = [trace EXCEPT ![t] = <<Ev("set", "CANCELLING")>>]
  /\ ret' = [ret EXCEPT ![t] = "none"]
  /\ pc' = [pc EXCEPT ![t] = "c_shutdown"]
  /\ UNCHANGED <<exec, failuresRaised>>

\* Executor.shutdown (executor.py): best effort; whatever it could not stop
\* or discard, it returns without raising
Shutdown(t, partial) ==
  /\ trace' = [trace EXCEPT ![t] =
                 Append(@, Ev("shutdown", IF partial THEN "partial" ELSE "clean"))]
  /\ UNCHANGED <<exec>>

\* cancel without line 458: the executor is never told to stop
CancelShutdownSkipped(t) ==
  /\ pc[t] = "c_shutdown"
  /\ pc' = [pc EXCEPT ![t] = "c_set"]
  /\ UNCHANGED <<state, op, dur, trace, ret, exec, calls, failuresRaised>>

\* line 458
CancelShutdown(t) ==
  /\ pc[t] = "c_shutdown"
  /\ \E partial \in BOOLEAN : Shutdown(t, partial)
  /\ pc' = [pc EXCEPT ![t] = "c_set"]
  /\ UNCHANGED <<state, op, dur, ret, calls, failuresRaised>>

\* cancel without line 459: it returns with the state it set on line 457
CancelEndNoSet(t) ==
  /\ pc[t] = "c_set"
  /\ trace' = [trace EXCEPT ![t] = Append(@, Ev("return", "None"))]
  /\ ret' = [ret EXCEPT ![t] = "None"]
  /\ pc' = [pc EXCEPT ![t] = "idle"]
  /\ UNCHANGED <<state, op, dur, exec, calls, failuresRaised>>

\* line 459, and the return
CancelEnd(t) ==
  /\ pc[t] = "c_set"
  /\ state' = "CANCELLED"
  /\ trace' = [trace EXCEPT ![t] =
                 @ \o <<Ev("set", "CANCELLED"), Ev("return", "None")>>]
  /\ ret' = [ret EXCEPT ![t] = "None"]
  /\ pc' = [pc EXCEPT ![t] = "idle"]
  /\ UNCHANGED <<op, dur, exec, calls, failuresRaised>>

-----------------------------------------------------------------------------
(* DirectPipelineResult.__del__ *)

\* __del__ warning in every state but DONE
WarnsOnReleaseUnlessDone(st) == st # "DONE"

\* line 423
WarnsOnRelease(st) == st = "RUNNING"

\* lines 422-430: the handle is collected when nothing refers to it any
\* more, so no thread is inside one of its methods
Release ==
  /\ ~released
  /\ \A t \in Threads : pc[t] = "idle"
  /\ released' = TRUE
  /\ warned' = WarnsOnRelease(state)
  /\ UNCHANGED <<state, pc, op, dur, trace, ret, exec, calls, failuresRaised,
                 raced>>

-----------------------------------------------------------------------------
(* _DirectWriteToPubSubFn *)

\* line 264
BUFFER_SIZE_ELEMENTS == 100

\* The values a sink option takes: None, the empty string, a name
SinkOptionValues == {"None", "", "label"}

Sinks == [id_label : SinkOptionValues, timestamp_attribute : SinkOptionValues]

\* `if sink.id_label:` -- Python truth of an option: None and "" are false
TruthyOption(v) == v # "None" /\ v # ""

\* lines 275-280 without the timestamp_attribute test of lines 278-280
RejectsSinkIdLabelOnly(sk) == TruthyOption(sk.id_label)

\* lines 275-280: whether __init__ raises NotImplementedError
RejectsSink(sk) ==
  TruthyOption(sk.id_label) \/ TruthyOption(sk.timestamp_attribute)

WriterInit ==
  /\ buffer = <<>>
  /\ wphase = "new"
  /\ sink = [id_label |-> "None", timestamp_attribute |-> "None"]
  /\ nInBundle = 0
  /\ bundles = 0
  /\ submitted = <<>>
  /\ lastOp = "none"
  /\ lastFlushed = FALSE
  /\ lastFlushLen = 0
  /\ lastRaised = FALSE
  /\ failedFlushes = 0

\* _flush without line 309: the published elements stay in the buffer
FlushKeepsBuffer(buf) ==
  /\ lastFlushed' = TRUE
  /\ lastFlushLen' = Len(buf)
  /\ submitted' = submitted \o buf
  /\ buffer' = buf
  /\ lastRaised' = FALSE
  /\ failedFlushes' = failedFlushes

\* lines 293-309, _flush on the buffer buf: either every element is published
\* and acknowledged and the buffer is emptied (line 309), or the client, a
\* publish or an acknowledgment raises after k elements were handed over and
\* line 309 is not reached
Flush(buf) ==
  /\ lastFlushed' = TRUE
  /\ lastFlushLen' = Len(buf)
  /\ \/ /\ submitted' = submitted \o buf
        /\ buffer' = <<>>
        /\ lastRaised' = FALSE
        /\ failedFlushes' = failedFlushes
     \/ \E k \in 0..Len(buf) :
          /\ submitted' = submitted \o SubSeq(buf, 1, k)
          /\ buffer' = buf
          /\ lastRaised' = TRUE
          /\ failedFlushes' = failedFlushes + 1

NoFlush(buf) ==
  /\ lastFlushed' = FALSE
  /\ lastFlushLen' = 0
  /\ lastRaised' = FALSE
  /\ buffer' = buf
  /\ UNCHANGED <<submitted, failedFlushes>>

\* lines 267-280, __init__ on the sink sk: the fields are copied, then an
\* unsupported option raises; no buffer exists yet
Construct ==
  /\ wphase = "new"
  /\ \E sk \in Sinks :
       /\ sink' = sk
       /\ wphase' = IF RejectsSink(sk) THEN "rejected" ELSE "idle"
       /\ lastRaised' = RejectsSink(sk)
  /\ lastOp' = "__init__"
  /\ UNCHANGED <<buffer, nInBundle, bundles, submitted, lastFlushed,
                 lastFlushLen, failedFlushes>>

\* start_bundle that keeps the buffer of the bundle before
StartBundleKeepsBuffer ==
  /\ wphase \in {"idle", "aborted"}
  /\ bundles < MaxBundles
  /\ bundles' = bundles + 1
  /\ wphase' = "open"
  /\ nInBundle' = 0
  /\ submitted' = <<>>
  /\ lastOp' = "start_bundle"
  /\ NoFlush(buffer)
  /\ UNCHANGED sink

\* lines 282-283; the runner starts a bundle when none is open, also after a
\* bundle that a raising call aborted
StartBundle ==
  /\ wphase \in {"idle", "aborted"}
  /\ bundles < MaxBundles
  /\ bundles' = bundles + 1
  /\ wphase' = "open"
  /\ nInBundle' = 0
  /\ submitted' = <<>>
  /\ lastOp' = "start_bundle"
  /\ NoFlush(<<>>)
  /\ UNCHANGED sink

\* process testing len(self._buffer) > BUFFER_SIZE_ELEMENTS on line 287
ProcessFlushesLate ==
  /\ wphase = "open"
  /\ nInBundle < MaxElems
  /\ nInBundle' = nInBundle + 1
  /\ lastOp' = "process"
  /\ LET buf == Append(buffer, nInBundle + 1)
     IN  IF Len(buf) > BUFFER_SIZE_ELEMENTS THEN Flush(buf) ELSE NoFlush(buf)
  /\ wphase' = IF lastRaised' THEN "aborted" ELSE "open"
  /\ UNCHANGED <<bundles, sink>>

\* lines 285-288; the element is the next one of the bundle, named by its
\* arrival number
Process ==
  /\ wphase = "open"
  /\ nInBundle < MaxElems
  /\ nInBundle' = nInBundle + 1
  /\ lastOp' = "process"
  /\ LET buf == Append(buffer, nInBundle + 1)
     IN  IF Len(buf) >= BUFFER_SIZE_ELEMENTS THEN Flush(buf) ELSE NoFlush(buf)
  /\ wphase' = IF lastRaised' THEN "aborted" ELSE "open"
  /\ UNCHANGED <<bundles, sink>>

\* lines 290-291
FinishBundle ==
  /\ wphase = "open"
  /\ lastOp' = "finish_bundle"
  /\ Flush(buffer)
  /\ wphase' = IF lastRaised' THEN "aborted" ELSE "idle"
  /\ UNCHANGED <<nInBundle, bundles, sink>>

-----------------------------------------------------------------------------
(* _DirectWriteToPubSubFn._flush: waiting for the acknowledgments. Time is
   counted in whole units of the clock time.time() reads. *)

\* line 265: BUFFER_SIZE_ELEMENTS * 0.5
FLUSH_TIMEOUT_SECS == BUFFER_SIZE_ELEMENTS \div 2

\* line 307, with e = time.time() - timer_start
Remaining(e) == FLUSH_TIMEOUT_SECS - e

\* future.result(timeout) blocks for the timeout at most, and not at all
\* when the timeout is zero or negative
LongestWait(timeout) == IF timeout > 0 THEN timeout ELSE 0

FlushInit ==
  /\ fphase = "idle"
  /\ futuresLeft = 0
  /\ elapsed = 0
  /\ remaining = FLUSH_TIMEOUT_SECS
  /\ waited = 0
  /\ overhead = 0

\* lines 299-305: n elements are published and timer_start is read
FlushBegin ==
  /\ fphase = "idle"
  /\ \E n \in 0..MaxFutures : futuresLeft' = n
  /\ fphase' = "loop"
  /\ elapsed' = 0
  /\ UNCHANGED <<remaining, waited, overhead>>

\* time passes while the loop runs between line 305 or 308 and line 307
LoopTakesTime ==
  /\ fphase = "loop"
  /\ futuresLeft > 0
  /\ overhead < MaxOverhead
  /\ overhead' = overhead + 1
  /\ elapsed' = elapsed + 1
  /\ UNCHANGED <<fphase, futuresLeft, remaining, waited>>

\* line 307, and the call on line 308
ComputeRemaining ==
  /\ fphase = "loop"
  /\ futuresLeft > 0
  /\ remaining' = Remaining(elapsed)
  /\ fphase' = "waiting"
  /\ UNCHANGED <<futuresLeft, elapsed, waited, overhead>>

\* line 308: the acknowledgment arrives after w units, within the timeout
ResultReturns ==
  /\ fphase = "waiting"
  /\ \E w \in 0..LongestWait(remaining) :
       /\ elapsed' = elapsed + w
       /\ waited' = waited + w
  /\ futuresLeft' = futuresLeft - 1
  /\ overhead' = 0
  /\ fphase' = "loop"
  /\ UNCHANGED remaining

\* line 308: no acknowledgment within the timeout, result() raises
ResultTimesOut ==
  /\ fphase = "waiting"
  /\ elapsed' = elapsed + LongestWait(remaining)
  /\ waited' = waited + LongestWait(remaining)
  /\ fphase' = "raised"
  /\ UNCHANGED <<futuresLeft, remaining, overhead>>

\* line 309, after the last future
LoopEnds ==
  /\ fphase = "loop"
  /\ futuresLeft = 0
  /\ fphase' = "done"
  /\ UNCHANGED <<futuresLeft, elapsed, remaining, waited, overhead>>

-----------------------------------------------------------------------------
(* Pipeline steps: the transform classes the rules and visitors tell apart *)

\* A step is an applied transform: its class, the DoFn of a ParDo, the source
\* of a Read, whether its positional / keyword side inputs hold an
\* ArgumentPlaceholder, whether its input windowing is the default, whether
\* LiftedCombinePerKey accepts its CombineFn, and the sink options of a
\* Pub/Sub write.
PlainParDo ==
  [cls |-> "ParDo", dofn |-> "DoFn", source |-> "none", argPH |-> FALSE,
   kwargPH |-> FALSE, winDefault |-> TRUE, liftable |-> TRUE,
   idLabel |-> FALSE, tsAttr |-> FALSE]

OfClass(c) == [PlainParDo EXCEPT !.cls = c, !.dofn = "none"]

StepKinds ==
  { PlainParDo,
    [PlainParDo EXCEPT !.dofn = "SplittableDoFn"],
    [PlainParDo EXCEPT !.dofn = "CombineValuesDoFn"],
    [PlainParDo EXCEPT !.dofn = "CombineValuesDoFn", !.argPH = TRUE],
    [PlainParDo EXCEPT !.dofn = "CombineValuesDoFn", !.kwargPH = TRUE],
    OfClass("_TestStream"),
    [OfClass("Read") EXCEPT !.source = "NativeSource"],
    [OfClass("Read") EXCEPT !.source = "BoundedSource"],
    OfClass("_NativeWrite"),
    OfClass("CombinePerKey"),
    [OfClass("CombinePerKey") EXCEPT !.winDefault = FALSE],
    [OfClass("CombinePerKey") EXCEPT !.liftable = FALSE, !.argPH = TRUE],
    OfClass("ProcessKeyedElements"),
    OfClass("_GroupByKeyOnly"),
    OfClass("_StreamingGroupByKeyOnly"),
    [OfClass("_GroupAlsoByWindow") EXCEPT !.dofn = "_GroupAlsoByWindowDoFn"],
    [OfClass("_StreamingGroupAlsoByWindow") EXCEPT !.dofn = "_GroupAlsoByWindowDoFn"],
    OfClass("ReadFromPubSub"),
    OfClass("WriteToPubSub"),
    [OfClass("WriteToPubSub") EXCEPT !.idLabel = TRUE],
    OfClass("_WriteStringsToPubSub") }

\* The classes a class derives from (itself included): lines 145 and 160 for
\* the streaming placeholders, transforms/core.py for _GroupAlsoByWindow
Bases(c) ==
  CASE c = "_StreamingGroupByKeyOnly" -> {c, "_GroupByKeyOnly"}
    [] c = "_GroupAlsoByWindow" -> {c, "ParDo"}
    [] c = "_StreamingGroupAlsoByWindow" -> {c, "_GroupAlsoByWindow", "ParDo"}
    [] OTHER -> {c}

IsInstance(step, c) == c \in Bases(step.cls)

RECURSIVE SeqsUpTo(_, _)
SeqsUpTo(S, n) ==
  IF n = 0 THEN {<<>>}
  ELSE LET shorter == SeqsUpTo(S, n - 1)
       IN  shorter \cup {Append(q, x) : q \in shorter, x \in S}

Graphs == SeqsUpTo(StepKinds, MaxSteps)

-----------------------------------------------------------------------------
(* SwitchingDirectRunner.run_pipeline: _FnApiRunnerSupportVisitor *)

\* lines 113-114 with a combine-values step's keyword side inputs left out
HasPlaceholderArgsOnly(step) == step.argPH

\* lines 110-114: an ArgumentPlaceholder among args or kwargs.values()
HasPlaceholder(step) == step.argPH \/ step.kwargPH

\* lines 93-115, visit_transform: the flag after this step
VisitTransform(supported, step) ==
  LET s1 == IF IsInstance(step, "_TestStream") THEN FALSE ELSE supported
      s2 == IF IsInstance(step, "Read") /\ step.source = "NativeSource"
              THEN FALSE ELSE s1
      s3 == IF IsInstance(step, "_NativeWrite") THEN FALSE ELSE s2
      s4 == IF /\ IsInstance(step, "ParDo")
               /\ step.dofn = "CombineValuesDoFn"
               /\ HasPlaceholder(step)
              THEN FALSE ELSE s3
  IN  s4

RECURSIVE VisitAll(_, _)
VisitAll(supported, g) ==
  IF g = <<>> THEN supported
  ELSE VisitAll(VisitTransform(supported, Head(g)), Tail(g))

\* lines 88-91, accept
Accept(g) == VisitAll(TRUE, g)

\* lines 119-133: the visitor's answer, unless importing grpc raises
\* ImportError, which is caught
UseFnApiRunner(g, grpc) == IF grpc THEN Accept(g) ELSE FALSE

-----------------------------------------------------------------------------
(* _get_transform_overrides and _get_pubsub_transform_overrides *)

\* lines 228-244 and 339: the rules, in order
Overrides(strm, pubsub) ==
  <<"SplittableParDoOverride", "ProcessKeyedElementsViaKeyedWorkItemsOverride",
    "CombinePerKeyOverride">>
  \o (IF strm THEN <<"StreamingGroupByKeyOverride",
                     "StreamingGroupAlsoByWindowOverride">> ELSE <<>>)
  \o (IF pubsub THEN <<"ReadFromPubSubOverride", "WriteToPubSubOverride">>
                ELSE <<>>)

PubSubOverrides == {"ReadFromPubSubOverride", "WriteToPubSubOverride"}

\* StreamingGroupByKeyOverride.matches testing isinstance, not the exact class
GroupByKeyMatchesSubclass(step) == IsInstance(step, "_GroupByKeyOnly")

\* lines 206-208
StreamingGroupByKeyMatches(step) == step.cls = "_GroupByKeyOnly"

\* StreamingGroupAlsoByWindowOverride.matches without the class test of
\* line 221
GroupAlsoByWindowMatchesSpecialized(step) ==
  IsInstance(step, "ParDo") /\ step.dofn = "_GroupAlsoByWindowDoFn"

\* lines 216-221
StreamingGroupAlsoByWindowMatches(step) ==
  /\ IsInstance(step, "ParDo")
  /\ step.dofn = "_GroupAlsoByWindowDoFn"
  /\ step.cls # "_StreamingGroupAlsoByWindow"

\* CombinePerKeyOverride.matches without the is_default() test of line 193
CombinePerKeyMatchesAnyWindowing(step) == IsInstance(step, "CombinePerKey")

\* lines 191-193: None (false) for another class, else is_default()
CombinePerKeyMatches(step) ==
  IF IsInstance(step, "CombinePerKey") THEN step.winDefault ELSE FALSE

\* lines 317-319
ReadFromPubSubMatches(step) == IsInstance(step, "ReadFromPubSub")

\* lines 328-331
WriteToPubSubMatches(step) ==
  IsInstance(step, "WriteToPubSub") \/ IsInstance(step, "_WriteStringsToPubSub")

\* sdf_direct_runner.py: a ParDo of a splittable DoFn
SplittableParDoMatches(step) ==
  IsInstance(step, "ParDo") /\ step.dofn = "SplittableDoFn"

\* sdf_direct_runner.py
ProcessKeyedElementsMatches(step) == IsInstance(step, "ProcessKeyedElements")

Matches(ov, step) ==
  CASE ov = "SplittableParDoOverride" -> SplittableParDoMatches(step)
    [] ov = "ProcessKeyedElementsViaKeyedWorkItemsOverride" ->
         ProcessKeyedElementsMatches(step)
    [] ov = "CombinePerKeyOverride" -> CombinePerKeyMatches(step)
    [] ov = "StreamingGroupByKeyOverride" -> StreamingGroupByKeyMatches(step)
    [] ov = "StreamingGroupAlsoByWindowOverride" ->
         StreamingGroupAlsoByWindowMatches(step)
    [] ov = "ReadFromPubSubOverride" -> ReadFromPubSubMatches(step)
    [] ov = "WriteToPubSubOverride" -> WriteToPubSubMatches(step)

\* What get_replacement_transform gives: a newly built transform, the
\* transform it was given (the same object), or the exception it raises
Gives(step) == [raised |-> "none", step |-> step, same |-> FALSE]
GivesBack(step) == [raised |-> "none", step |-> step, same |-> TRUE]
Raises(exc, step) == [raised |-> exc, step |-> step, same |-> TRUE]

\* lines 195-203: the lifted combine, or the transform itself when
\* LiftedCombinePerKey raises NotImplementedError
CombinePerKeyReplacement(step) ==
  IF step.liftable THEN Gives([step EXCEPT !.cls = "LiftedCombinePerKey"])
                   ELSE GivesBack(step)

\* lines 210-213
StreamingGroupByKeyReplacement(step) ==
  Gives([step EXCEPT !.cls = "_StreamingGroupByKeyOnly"])

\* lines 223-226
StreamingGroupAlsoByWindowReplacement(step) ==
  Gives([step EXCEPT !.cls = "_StreamingGroupAlsoByWindow"])

\* ReadFromPubSubOverride without the streaming test of lines 322-324
ReadFromPubSubReplacementUnchecked(step, strm) ==
  Gives([step EXCEPT !.cls = "_DirectReadFromPubSub"])

\* lines 321-325
ReadFromPubSubReplacement(step, strm) ==
  IF ~strm THEN Raises("Exception", step)
  ELSE Gives([step EXCEPT !.cls = "_DirectReadFromPubSub"])

\* lines 333-337, with _DirectWriteToPubSubFn.__init__, lines 267-280
WriteToPubSubReplacement(step, strm) ==
  IF ~strm THEN Raises("Exception", step)
  ELSE IF step.idLabel \/ step.tsAttr THEN Raises("NotImplementedError", step)
  ELSE Gives([step EXCEPT !.cls = "ParDo", !.dofn = "_DirectWriteToPubSubFn"])

\* sdf_direct_runner.py
SplittableParDoReplacement(step) ==
  Gives([step EXCEPT !.cls = "SplittableParDo"])

\* sdf_direct_runner.py
ProcessKeyedElementsReplacement(step) ==
  Gives([step EXCEPT !.cls = "ProcessKeyedElementsViaKeyedWorkItems"])

Replacement(ov, step, strm) ==
  CASE ov = "SplittableParDoOverride" -> SplittableParDoReplacement(step)
    [] ov = "ProcessKeyedElementsViaKeyedWorkItemsOverride" ->
         ProcessKeyedElementsReplacement(step)
    [] ov = "CombinePerKeyOverride" -> CombinePerKeyReplacement(step)
    [] ov = "StreamingGroupByKeyOverride" -> StreamingGroupByKeyReplacement(step)
    [] ov = "StreamingGroupAlsoByWindowOverride" ->
         StreamingGroupAlsoByWindowReplacement(step)
    [] ov = "ReadFromPubSubOverride" -> ReadFromPubSubReplacement(step, strm)
    [] ov = "WriteToPubSubOverride" -> WriteToPubSubReplacement(step, strm)

-----------------------------------------------------------------------------
(* Pipeline.replace_all (pipeline.py): each rule in order, over every step *)

\* The outcome of rewriting: the graph, the exception that ended it, the
\* number of steps that got a new transform, whether a Pub/Sub rule matched
Outcome(g, exc, n, m) == [graph |-> g, raised |-> exc, replaced |-> n, pubsub |-> m]

\* One rule over the steps from position i on; a replacement that is the
\* transform itself leaves the step as it is and replaces nothing
RECURSIVE ApplyOverride(_, _, _, _)
ApplyOverride(ov, strm, acc, i) ==
  IF acc.raised # "none" \/ i > Len(acc.graph) THEN acc
  ELSE LET step == acc.graph[i]
       IN  IF ~Matches(ov, step) THEN ApplyOverride(ov, strm, acc, i + 1)
           ELSE LET r == Replacement(ov, step, strm)
                    hit == acc.pubsub \/ ov \in PubSubOverrides
                IN  IF r.raised # "none"
                      THEN Outcome(acc.graph, r.raised, acc.replaced, hit)
                    ELSE IF r.same
                      THEN ApplyOverride(ov, strm,
                             Outcome(acc.graph, "none", acc.replaced, hit), i + 1)
                    ELSE ApplyOverride(ov, strm,
                           Outcome([acc.graph EXCEPT ![i] = r.step], "none",
                                   acc.replaced + 1, hit), i + 1)

RECURSIVE ApplyOverrides(_, _, _)
ApplyOverrides(ovs, strm, acc) ==
  IF ovs = <<>> \/ acc.raised # "none" THEN acc
  ELSE ApplyOverrides(Tail(ovs), strm, ApplyOverride(Head(ovs), strm, acc, 1))

ReplaceAllOn(g, strm, pubsub) ==
  ApplyOverrides(Overrides(strm, pubsub), strm, Outcome(g, "none", 0, FALSE))

-----------------------------------------------------------------------------
(* The run: SwitchingDirectRunner.run_pipeline, then, unless the FnApiRunner
   is chosen, BundleBasedDirectRunner.run_pipeline *)

RunInit ==
  /\ graph0 \in Graphs
  /\ graph = graph0
  /\ streaming \in BOOLEAN
  /\ pubsubAvail \in BOOLEAN
  /\ grpcAvail \in BOOLEAN
  /\ rphase = "new"
  /\ chosen = "none"
  /\ runError = "none"
  /\ replacedCount = 0
  /\ pubsubMatched = FALSE
  /\ clock = "none"
  /\ contextBuilt = FALSE
  /\ startCalls = 0
  /\ resultState = "none"
  /\ ctxClock = "none"
  /\ ctxGraph = <<>>
  /\ runTrace = <<>>

\* lines 119-133
SelectRunner ==
  /\ rphase = "new"
  /\ chosen' = IF UseFnApiRunner(graph, grpcAvail) THEN "FnApiRunner"
                                                   ELSE "BundleBasedDirectRunner"
  /\ rphase' = "selected"
  /\ UNCHANGED <<graph, graph0, streaming, pubsubAvail, grpcAvail, runError,
                 replacedCount, pubsubMatched, clock, contextBuilt, startCalls,
                 resultState, ctxClock, ctxGraph, runTrace>>

\* line 135 with the FnApiRunner chosen: the run is the FnApiRunner's
DelegateFnApi ==
  /\ rphase = "selected"
  /\ chosen = "FnApiRunner"
  /\ rphase' = "delegated"
  /\ UNCHANGED <<graph, graph0, streaming, pubsubAvail, grpcAvail, chosen,
                 runError, replacedCount, pubsubMatched, clock, contextBuilt,
                 startCalls, resultState, ctxClock, ctxGraph, runTrace>>

\* line 365
ReplaceAll ==
  /\ rphase = "selected"
  /\ chosen = "BundleBasedDirectRunner"
  /\ LET r == ReplaceAllOn(graph, streaming, pubsubAvail)
     IN  /\ graph' = r.graph
         /\ replacedCount' = r.replaced
         /\ pubsubMatched' = r.pubsub
         /\ runError' = r.raised
         /\ rphase' = IF r.raised # "none" THEN "error" ELSE "rewritten"
  /\ runTrace' = Append(runTrace, "replace_all")
  /\ UNCHANGED <<graph0, streaming, pubsubAvail, grpcAvail, chosen, clock,
                 contextBuilt, startCalls, resultState, ctxClock, ctxGraph>>

\* lines 368-379: _TestStreamUsageVisitor over the pipeline
UsesTestStream(g) == \E i \in 1..Len(g) : IsInstance(g[i], "_TestStream")

\* line 380 choosing the RealClock whatever the visitor found
ClockForAlwaysReal(g) == "RealClock"

\* line 380
ClockFor(g) == IF UsesTestStream(g) THEN "TestClock" ELSE "RealClock"

\* lines 368-380
ChooseClock ==
  /\ rphase = "rewritten"
  /\ clock' = ClockFor(graph)
  /\ rphase' = "clocked"
  /\ runTrace' = Append(runTrace, "choose_clock")
  /\ UNCHANGED <<graph, graph0, streaming, pubsubAvail, grpcAvail, chosen,
                 runError, replacedCount, pubsubMatched, contextBuilt,
                 startCalls, resultState, ctxClock, ctxGraph>>

\* lines 383-398: the consumer-tracking visitor over the pipeline, then the
\* EvaluationContext with the clock, then the Executor
BuildContext ==
  /\ rphase = "clocked"
  /\ ctxGraph' = graph
  /\ ctxClock' = clock
  /\ contextBuilt' = TRUE
  /\ rphase' = "context"
  /\ runTrace' = runTrace \o <<"visit_consumers", "EvaluationContext">>
  /\ UNCHANGED <<graph, graph0, streaming, pubsubAvail, grpcAvail, chosen,
                 runError, replacedCount, pubsubMatched, clock, startCalls,
                 resultState>>

\* lines 401-404
StartExecutor ==
  /\ rphase = "context"
  /\ startCalls' = startCalls + 1
  /\ rphase' = "started"
  /\ runTrace' = Append(runTrace, "Executor.start")
  /\ UNCHANGED <<graph, graph0, streaming, pubsubAvail, grpcAvail, chosen,
                 runError, replacedCount, pubsubMatched, clock, contextBuilt,
                 resultState, ctxClock, ctxGraph>>

\* run_pipeline waiting for the executor before it returns the result
ReturnResultAfterAwait ==
  /\ rphase = "started"
  /\ resultState' = "DONE"
  /\ rphase' = "returned"
  /\ runTrace' = runTrace \o <<"Executor.await_completion", "DirectPipelineResult">>
  /\ UNCHANGED <<graph, graph0, streaming, pubsubAvail, grpcAvail, chosen,
                 runError, replacedCount, pubsubMatched, clock, contextBuilt,
                 startCalls, ctxClock, ctxGraph>>

\* lines 405-407 and 417-420
ReturnResult ==
  /\ rphase = "started"
  /\ resultState' = "RUNNING"
  /\ rphase' = "returned"
  /\ runTrace' = Append(runTrace, "DirectPipelineResult")
  /\ UNCHANGED <<graph, graph0, streaming, pubsubAvail, grpcAvail, chosen,
                 runError, replacedCount, pubsubMatched, clock, contextBuilt,
                 startCalls, ctxClock, ctxGraph>>

-----------------------------------------------------------------------------
(* Specifications: one for the run, one for the handle the run returns, one
   for the write adapter; each leaves the variables of the other two alone *)

\* The handle of a run that has returned it
HandleInitAfterRun ==
  /\ graph0 = <<>>
  /\ graph = <<>>
  /\ streaming = FALSE
  /\ pubsubAvail = FALSE
  /\ grpcAvail = FALSE
  /\ rphase = "returned"
  /\ chosen = "BundleBasedDirectRunner"
  /\ runError = "none"
  /\ replacedCount = 0
  /\ pubsubMatched = FALSE
  /\ clock = "RealClock"
  /\ contextBuilt = TRUE
  /\ startCalls = 1
  /\ resultState = "RUNNING"
  /\ ctxClock = "RealClock"
  /\ ctxGraph = <<>>
  /\ runTrace = <<"replace_all", "choose_clock", "visit_consumers",
                  "EvaluationContext", "Executor.start", "DirectPipelineResult">>

InitAfterRun == HandleInit /\ WriterInit /\ FlushInit /\ HandleInitAfterRun

HandleNext ==
  \/ Quiesce /\ UNCHANGED <<released, warned, raced, wvars, rvars, fvars>>
  \/ WorkerFail /\ UNCHANGED <<released, warned, raced, wvars, rvars, fvars>>
  \/ \E t \in Threads : \E d \in Durations :
       WaitCall(t, d) /\ UNCHANGED <<released, warned, raced, wvars, rvars, fvars>>
  \/ \E t \in Threads :
       AwaitReturn(t) /\ UNCHANGED <<released, warned, raced, wvars, rvars, fvars>>
  \/ \E t \in Threads :
       AwaitRaise(t) /\ UNCHANGED <<released, warned, raced, wvars, rvars, fvars>>
  \/ \E t \in Threads :
       WaitReturn(t) /\ UNCHANGED <<released, warned, raced, wvars, rvars, fvars>>
  \/ \E t \in Threads :
       CancelBegin(t) /\ UNCHANGED <<released, warned, wvars, rvars, fvars>>
  \/ \E t \in Threads :
       CancelShutdown(t) /\ UNCHANGED <<released, warned, raced, wvars, rvars, fvars>>
  \/ \E t \in Threads :
       CancelEnd(t) /\ UNCHANGED <<released, warned, raced, wvars, rvars, fvars>>
  \/ Release /\ UNCHANGED <<wvars, rvars, fvars>>

SpecHandle == InitAfterRun /\ [][HandleNext]_vars

WriterNext ==
  \/ Construct /\ UNCHANGED <<hvars, rvars, fvars>>
  \/ StartBundle /\ UNCHANGED <<hvars, rvars, fvars>>
  \/ Process /\ UNCHANGED <<hvars, rvars, fvars>>
  \/ FinishBundle /\ UNCHANGED <<hvars, rvars, fvars>>

SpecWriter == InitAfterRun /\ [][WriterNext]_vars

InitRun == HandleInit /\ WriterInit /\ FlushInit /\ RunInit

FlushNext ==
  \/ FlushBegin /\ UNCHANGED <<hvars, wvars, rvars>>
  \/ LoopTakesTime /\ UNCHANGED <<hvars, wvars, rvars>>
  \/ ComputeRemaining /\ UNCHANGED <<hvars, wvars, rvars>>
  \/ ResultReturns /\ UNCHANGED <<hvars, wvars, rvars>>
  \/ ResultTimesOut /\ UNCHANGED <<hvars, wvars, rvars>>
  \/ LoopEnds /\ UNCHANGED <<hvars, wvars, rvars>>

SpecFlush == InitAfterRun /\ [][FlushNext]_vars

RunNext ==
  \/ SelectRunner /\ UNCHANGED <<hvars, wvars, fvars>>
  \/ DelegateFnApi /\ UNCHANGED <<hvars, wvars, fvars>>
  \/ ReplaceAll /\ UNCHANGED <<hvars, wvars, fvars>>
  \/ ChooseClock /\ UNCHANGED <<hvars, wvars, fvars>>
  \/ BuildContext /\ UNCHANGED <<hvars, wvars, fvars>>
  \/ StartExecutor /\ UNCHANGED <<hvars, wvars, fvars>>
  \/ ReturnResult /\ UNCHANGED <<hvars, wvars, fvars>>

SpecRun == InitRun /\ [][RunNext]_vars

-----------------------------------------------------------------------------
(* Claims about the result handle *)

TerminalStates == {"DONE", "FAILED", "CANCELLED"}

LegalEdges == { <<"RUNNING", "DONE">>, <<"RUNNING", "FAILED">>,
                <<"RUNNING", "CANCELLING">>, <<"CANCELLING", "CANCELLED">> }

InCancel(t) == pc[t] \in {"c_shutdown", "c_set"}

\* C1: the handle starts in RUNNING and every change of its state is one of
\* RUNNING->DONE, RUNNING->FAILED, RUNNING->CANCELLING, CANCELLING->CANCELLED;
\* no change leaves DONE, FAILED or CANCELLED.
C1_OnlyLegalEdges ==
  /\ state = "RUNNING"
  /\ [][state' # state => <<state, state'>> \in LegalEdges]_vars

\* C2: a wait_until_finish call given a duration other than None never waits
\* on the executor and ends by raising NotImplementedError, whatever the
\* state of the handle and whatever the duration.
C2_TimeoutAlwaysFails ==
  \A t \in Threads :
    (op[t] = "wait" /\ dur[t] # NoDuration) =>
      /\ pc[t] # "w_await"
      /\ pc[t] = "idle" => ret[t] = "NotImplementedError"

\* C3: once wait_until_finish has raised the worker failure, the handle is
\* FAILED for good and the failure is never raised a second time.
C3_FailureOnceAndForGood ==
  failuresRaised >= 1 => (state = "FAILED" /\ failuresRaised = 1)

\* C4: wait_until_finish() without a duration on a handle it finds in DONE,
\* FAILED or CANCELLED only reads: its whole trace is the test and the return,
\* so it neither awaits nor shuts down the executor and assigns no state; the
\* value it returns is the handle's state at the return.
C4_WaitOnTerminalOnlyReads ==
  /\ [](\A t \in Threads :
         ( /\ op[t] = "wait"
           /\ dur[t] = NoDuration
           /\ trace[t] # <<>>
           /\ trace[t][1][2] \in TerminalStates ) =>
             /\ pc[t] \in {"w_ret", "idle"}
             /\ pc[t] = "w_ret" => Len(trace[t]) = 1
             /\ pc[t] = "idle" =>
                  /\ Len(trace[t]) = 2
                  /\ trace[t][2] = Ev("return", ret[t])
                  /\ ret[t] \in States)
  /\ [][\A t \in Threads :
          ( /\ op[t] = "wait"
            /\ pc[t] = "w_ret"
            /\ pc'[t] = "idle"
            /\ trace[t][1][2] \in TerminalStates ) =>
              (state' = state /\ ret'[t] = state)]_vars

C4_Witness ==
  \E t \in Threads :
    /\ op[t] = "wait"
    /\ dur[t] = NoDuration
    /\ pc[t] = "idle"
    /\ Len(trace[t]) = 2
    /\ trace[t][1] = Ev("check", "FAILED")
    /\ ret[t] = "FAILED"

\* C5: a cancel() call does, in this order and nothing else: set CANCELLING,
\* call shutdown once, set CANCELLED, return. It never awaits the executor,
\* each of its steps can be taken whatever the workers are doing, and the
\* handle is in CANCELLING only while some cancel() call is under way.
C5_CancelSteps ==
  /\ \A t \in Threads :
       op[t] = "cancel" =>
         /\ pc[t] \in {"c_shutdown", "c_set", "idle"}
         /\ pc[t] = "c_shutdown" =>
              (trace[t] = <<Ev("set", "CANCELLING")>> /\ ENABLED CancelShutdown(t))
         /\ pc[t] = "c_set" =>
              /\ Len(trace[t]) = 2
              /\ trace[t][1] = Ev("set", "CANCELLING")
              /\ trace[t][2][1] = "shutdown"
              /\ ENABLED CancelEnd(t)
         /\ pc[t] = "idle" =>
              /\ Len(trace[t]) = 4
              /\ trace[t][1] = Ev("set", "CANCELLING")
              /\ trace[t][2][1] = "shutdown"
              /\ trace[t][3] = Ev("set", "CANCELLED")
              /\ trace[t][4] = Ev("return", "None")
  /\ state = "CANCELLING" => \E t \in Threads : op[t] = "cancel" /\ InCancel(t)

C5_Witness ==
  \E t \in Threads :
    /\ op[t] = "cancel"
    /\ pc[t] = "idle"
    /\ exec = "running"
    /\ state = "CANCELLED"

\* C6: every cancel() call ends by returning, never by raising, also when
\* shutdown could stop only part of the work; at its return the handle is
\* CANCELLED, and with no cancel() call under way the handle is not in
\* CANCELLING.
C6_CancelReturnsCancelled ==
  /\ [](\A t \in Threads :
         (op[t] = "cancel" /\ pc[t] = "idle") => ret[t] = "None")
  /\ []((\A t \in Threads : ~InCancel(t)) => state # "CANCELLING")
  /\ [][\A t \in Threads :
          (pc[t] = "c_set" /\ pc'[t] = "idle") => state' = "CANCELLED"]_vars

C6_Witness ==
  \E t \in Threads :
    /\ op[t] = "cancel"
    /\ pc[t] = "idle"
    /\ Len(trace[t]) = 4
    /\ trace[t][2] = Ev("shutdown", "partial")
    /\ ret[t] = "None"
    /\ state = "CANCELLED"

-----------------------------------------------------------------------------
(* Claims about the Pub/Sub write adapter *)

\* C7: in every bundle, also one that follows a flush which raised, process()
\* flushes exactly when the element it appended makes the buffered count 100,
\* finish_bundle always flushes, and start_bundle never does; no flush is
\* entered at any other count.
C7_FlushExactlyAtCapacityOrFinish ==
  /\ lastOp = "process" =>
       IF lastFlushed THEN lastFlushLen = BUFFER_SIZE_ELEMENTS
                      ELSE Len(buffer) # BUFFER_SIZE_ELEMENTS
  /\ lastOp = "process" => Len(buffer) <= BUFFER_SIZE_ELEMENTS
  /\ lastOp = "finish_bundle" => lastFlushed
  /\ lastOp = "start_bundle" => ~lastFlushed

C7_Witness ==
  /\ failedFlushes >= 1
  /\ bundles = 2
  /\ lastOp = "process"
  /\ lastFlushed
  /\ ~lastRaised
  /\ lastFlushLen = BUFFER_SIZE_ELEMENTS
  /\ nInBundle = 2 * BUFFER_SIZE_ELEMENTS

-----------------------------------------------------------------------------
(* Claims about the run *)

PubSubClasses == {"ReadFromPubSub", "WriteToPubSub", "_WriteStringsToPubSub"}

Rewritten == rphase \in {"rewritten", "clocked", "context", "started", "returned"}

\* C8: a bundle-based run with streaming = false in which a Pub/Sub read or
\* write rule matches a step ends in an error raised by replace_all: no clock
\* is chosen, no EvaluationContext is built, Executor.start is never called
\* and no result is returned.
C8_PubSubOutsideStreamingFailsFast ==
  LET matched ==
        \/ pubsubMatched
        \/ /\ rphase \notin {"new", "selected"}
           /\ chosen = "BundleBasedDirectRunner"
           /\ pubsubAvail
           /\ \E i \in 1..Len(graph0) : graph0[i].cls \in PubSubClasses
  IN  (~streaming /\ matched) =>
        /\ rphase = "error"
        /\ runError = "Exception"
        /\ clock = "none"
        /\ ~contextBuilt
        /\ startCalls = 0
        /\ resultState = "none"

C8_Witness ==
  /\ ~streaming
  /\ pubsubMatched
  /\ rphase = "error"
  /\ Len(graph0) >= 1
  /\ \A i \in 1..Len(graph0) : graph0[i].cls = "_WriteStringsToPubSub"

\* C9: applying the override list once more to the graph a run has rewritten
\* raises nothing, gives no step a new transform and leaves the graph as it is.
C9_RewriteIdempotent ==
  Rewritten =>
    LET again == ReplaceAllOn(graph, streaming, pubsubAvail)
    IN  /\ again.raised = "none"
        /\ again.replaced = 0
        /\ again.graph = graph

C9_Witness ==
  /\ rphase = "rewritten"
  /\ replacedCount >= 2
  /\ \E i \in 1..Len(graph) :
       graph0[i].cls = "_GroupByKeyOnly" /\ graph[i].cls = "_StreamingGroupByKeyOnly"
  /\ \E i \in 1..Len(graph) :
       graph0[i].cls = "_GroupAlsoByWindow"
         /\ graph[i].cls = "_StreamingGroupAlsoByWindow"

\* A step the FnApiRunner cannot run: a test stream, a read from a native
\* source, a native write, or a ParDo of a CombineValuesDoFn with an
\* ArgumentPlaceholder among its positional or keyword side inputs
C10_Ineligible(step) ==
  \/ step.cls = "_TestStream"
  \/ step.cls = "Read" /\ step.source = "NativeSource"
  \/ step.cls = "_NativeWrite"
  \/ /\ step.cls \in {"ParDo", "_GroupAlsoByWindow", "_StreamingGroupAlsoByWindow"}
     /\ step.dofn = "CombineValuesDoFn"
     /\ (step.argPH \/ step.kwargPH)

-----------------------------------------------------------------------------
(* The combine rule *)

AfterReplaceAll == Rewritten \/ rphase = "error"

C11_Liftable(step) == step.winDefault /\ step.liftable

\* C11: a CombinePerKey step becomes the lifted variant only when its input
\* windowing is the default one and its combine function can be lifted; with
\* another windowing it is never replaced; when lifting is not supported it
\* stays the very same step, counts as no replacement, and no error is raised.
C11_CombineLiftedOnlyWhenDefaultAndSupported ==
  AfterReplaceAll =>
    /\ \A i \in 1..Len(graph0) :
         graph0[i].cls = "CombinePerKey" =>
           /\ graph[i].cls = "LiftedCombinePerKey" => C11_Liftable(graph0[i])
           /\ ~graph0[i].winDefault => graph[i] = graph0[i]
           /\ ~graph0[i].liftable => graph[i] = graph0[i]
    /\ (\A i \in 1..Len(graph0) : graph0[i].cls = "CombinePerKey") =>
         /\ rphase # "error"
         /\ runError = "none"
         /\ replacedCount =
              Cardinality({i \in 1..Len(graph0) : C11_Liftable(graph0[i])})

C11_Witness ==
  /\ rphase = "rewritten"
  /\ runError = "none"
  /\ Len(graph0) = 2
  /\ graph0[1].cls = "CombinePerKey" /\ ~graph0[1].liftable /\ graph0[1].winDefault
  /\ graph[1] = graph0[1]
  /\ graph0[2].cls = "CombinePerKey" /\ C11_Liftable(graph0[2])
  /\ graph[2].cls = "LiftedCombinePerKey"
  /\ replacedCount = 1

-----------------------------------------------------------------------------
(* The streaming rules *)

StreamingOverrides ==
  {"StreamingGroupByKeyOverride", "StreamingGroupAlsoByWindowOverride"}

SpecializedClasses == {"_StreamingGroupByKeyOnly", "_StreamingGroupAlsoByWindow"}

GenericPlaceholders == {"_GroupByKeyOnly", "_GroupAlsoByWindow"}

InOverrides(ov) ==
  \E k \in 1..Len(Overrides(streaming, pubsubAvail)) :
    Overrides(streaming, pubsubAvail)[k] = ov

\* C12: both streaming rules are in the override list exactly when streaming
\* is set; neither matches a step that is already _StreamingGroupByKeyOnly or
\* _StreamingGroupAlsoByWindow, so rewriting gives such a step no new
\* transform; without streaming the generic placeholders stay as they are.
C12_StreamingRulesOnlyWhenStreaming ==
  /\ \A ov \in StreamingOverrides : InOverrides(ov) <=> streaming
  /\ \A i \in 1..Len(graph) :
       graph[i].cls \in SpecializedClasses =>
         /\ ~StreamingGroupByKeyMatches(graph[i])
         /\ ~StreamingGroupAlsoByWindowMatches(graph[i])
  /\ AfterReplaceAll =>
       /\ \A i \in 1..Len(graph0) :
            graph0[i].cls \in SpecializedClasses => graph[i] = graph0[i]
       /\ (\A i \in 1..Len(graph0) : graph0[i].cls \in SpecializedClasses) =>
            replacedCount = 0
       /\ ~streaming =>
            \A i \in 1..Len(graph0) :
              graph0[i].cls \in GenericPlaceholders => graph[i] = graph0[i]

C12_Witness ==
  /\ rphase = "rewritten"
  /\ streaming
  /\ Len(graph0) = 2
  /\ graph0[1].cls = "_StreamingGroupAlsoByWindow"
  /\ graph0[2].cls = "_GroupAlsoByWindow"
  /\ graph[1] = graph0[1]
  /\ graph[2].cls = "_StreamingGroupAlsoByWindow"
  /\ replacedCount = 1

-----------------------------------------------------------------------------
(* The clock of the EvaluationContext *)

Occurrences(q, e) == Cardinality({k \in 1..Len(q) : q[k] = e})

C13_ClockState ==
  /\ Occurrences(runTrace, "choose_clock") = (IF clock = "none" THEN 0 ELSE 1)
  /\ ctxClock # "none" =>
       /\ ctxClock = clock
       /\ ctxClock = "TestClock" <=>
            \E i \in 1..Len(ctxGraph) : ctxGraph[i].cls = "_TestStream"
       /\ ctxClock = "RealClock" <=>
            \A i \in 1..Len(ctxGraph) : ctxGraph[i].cls # "_TestStream"
  /\ startCalls > 0 => ctxClock # "none"

C13_ClockStep ==
  /\ clock # "none" => clock' = clock
  /\ ctxClock # "none" => ctxClock' = ctxClock

\* C13: the EvaluationContext gets the TestClock exactly when the pipeline
\* the run scans holds a _TestStream step and the RealClock otherwise; the
\* clock is chosen once in a run, before Executor.start, and neither the
\* choice nor the context's clock changes afterwards.
C13_ClockChosenOnceFromGraph == []C13_ClockState /\ [][C13_ClockStep]_vars

C13_Witness ==
  /\ rphase = "returned"
  /\ ctxClock = "TestClock"
  /\ startCalls = 1
  /\ \E i \in 1..Len(graph0) : graph0[i].cls = "_TestStream"

-----------------------------------------------------------------------------
(* The order of BundleBasedDirectRunner.run_pipeline *)

C15_RunOrder ==
  <<"replace_all", "choose_clock", "visit_consumers", "EvaluationContext",
    "Executor.start", "DirectPipelineResult">>

C15_OrderState ==
  /\ Len(runTrace) <= Len(C15_RunOrder)
  /\ runTrace = SubSeq(C15_RunOrder, 1, Len(runTrace))
  /\ startCalls = Occurrences(runTrace, "Executor.start")
  /\ contextBuilt =>
       /\ ctxGraph = graph
       /\ ctxClock = clock
       /\ runError = "none"
  /\ rphase = "returned" =>
       /\ runTrace = C15_RunOrder
       /\ startCalls = 1
       /\ resultState = "RUNNING"

C15_OrderStep ==
  startCalls >= 1 =>
    /\ graph' = graph
    /\ replacedCount' = replacedCount
    /\ startCalls' = startCalls

\* C15: a bundle-based run first applies all the overrides, then chooses the
\* clock and visits the rewritten pipeline for its consumers, then builds the
\* EvaluationContext, then calls Executor.start once, then returns a
\* DirectPipelineResult in state RUNNING without having called
\* await_completion; after start no override is applied.
C15_RunPipelineOrder == []C15_OrderState /\ [][C15_OrderStep]_vars

C15_Witness ==
  /\ rphase = "returned"
  /\ runTrace = C15_RunOrder
  /\ resultState = "RUNNING"
  /\ replacedCount >= 1
  /\ graph # graph0
  /\ ctxGraph = graph

-----------------------------------------------------------------------------
(* Construction of the Pub/Sub write DoFn *)

C14_OptionSet(v) == v \notin {"None", ""}

C14_Unsupported ==
  C14_OptionSet(sink.id_label) \/ C14_OptionSet(sink.timestamp_attribute)

C14_ConstructState ==
  /\ wphase = "rejected" =>
       /\ C14_Unsupported
       /\ lastOp = "__init__" /\ lastRaised
       /\ buffer = <<>> /\ submitted = <<>>
       /\ nInBundle = 0 /\ bundles = 0
  /\ wphase \notin {"new", "rejected"} => ~C14_Unsupported
  /\ (lastOp = "__init__" /\ ~lastRaised) => wphase = "idle" /\ ~C14_Unsupported

C14_ConstructStep == wphase = "rejected" => UNCHANGED wvars

\* C14: building _DirectWriteToPubSubFn from a sink whose id_label or
\* timestamp_attribute is set (a non-empty value) raises NotImplementedError
\* with nothing buffered or published, before and ever after; building it
\* from a sink with neither set succeeds.
C14_UnsupportedSinkRejectedAtConstruction ==
  []C14_ConstructState /\ [][C14_ConstructStep]_vars

C14_Witness ==
  /\ wphase = "rejected"
  /\ sink.id_label = "None"
  /\ sink.timestamp_attribute = "label"

-----------------------------------------------------------------------------
(* Elements of a bundle *)

\* The elements of the bundle so far, in arrival order
Arrived == [k \in 1..nInBundle |-> k]

\* C18: in a bundle in which no call raised, when finish_bundle has returned
\* every element given to process() since start_bundle has been handed to
\* the client once, in arrival order, and the buffer is empty; while the
\* bundle is open the elements handed over followed by the buffered ones are
\* the arrived ones, so none is dropped or handed over twice.
C18_BundleSubmittedOnceInOrder ==
  /\ wphase = "open" => submitted \o buffer = Arrived
  /\ (lastOp = "finish_bundle" /\ ~lastRaised) =>
       /\ wphase = "idle"
       /\ submitted = Arrived
       /\ buffer = <<>>

C18_Witness ==
  /\ lastOp = "finish_bundle"
  /\ ~lastRaised
  /\ nInBundle = 2 * BUFFER_SIZE_ELEMENTS + 1
  /\ submitted = Arrived
  /\ lastFlushLen = 1

\* C19: the buffer never holds more than BUFFER_SIZE_ELEMENTS elements: after
\* a process() call that returned normally it holds at most 99, and in no
\* state, a flush that raised included, more than 100.
C19_BufferWithinCapacity ==
  /\ Len(buffer) <= BUFFER_SIZE_ELEMENTS
  /\ (lastOp = "process" /\ ~lastRaised) => Len(buffer) <= BUFFER_SIZE_ELEMENTS - 1

C19_Witness ==
  /\ lastOp = "process"
  /\ lastRaised
  /\ Len(buffer) = BUFFER_SIZE_ELEMENTS
  /\ nInBundle = 2 * BUFFER_SIZE_ELEMENTS

-----------------------------------------------------------------------------
(* The timeout of a flush *)

\* C16: the wait passed for each acknowledgment is FLUSH_TIMEOUT_SECS (50)
\* less the time elapsed since timer_start, the time one flush spends waiting
\* never exceeds FLUSH_TIMEOUT_SECS, and the wait passed is never negative.
C16_WaitWithinBudgetNeverNegative ==
  /\ FLUSH_TIMEOUT_SECS = 50
  /\ waited <= FLUSH_TIMEOUT_SECS
  /\ fphase = "waiting" =>
       /\ remaining = FLUSH_TIMEOUT_SECS - elapsed
       /\ remaining >= 0

-----------------------------------------------------------------------------
(* Release of the handle *)

C17_ReleaseState ==
  /\ ~released => ~warned
  /\ released => (warned <=> state = "RUNNING")
  /\ (released /\ state \in {"DONE", "FAILED", "CANCELLING", "CANCELLED"}) => ~warned

C17_ReleaseStep ==
  /\ (~released /\ released') =>
       /\ state' = state
       /\ ret' = ret
       /\ trace' = trace
       /\ failuresRaised' = failuresRaised
  /\ released => (state' = state /\ warned' = warned)

\* C17: when the DirectPipelineResult is released the warning is logged
\* exactly when its state is then RUNNING; released in DONE, FAILED,
\* CANCELLING or CANCELLED it logs nothing; releasing changes no state and
\* raises nothing.
C17_WarnOnReleaseIffRunning == []C17_ReleaseState /\ [][C17_ReleaseStep]_vars

C17_Witness ==
  /\ released
  /\ ~warned
  /\ state = "CANCELLED"
  /\ calls >= 1

-----------------------------------------------------------------------------
(* cancel() while another thread waits *)

\* The only two calls on the handle are a wait_until_finish() that is inside
\* await_completion on a RUNNING handle and a cancel() that began meanwhile
C20_WaitAndCancelOnly == raced /\ calls = 2

C20_CancelReturned == \E t \in Threads : op[t] = "cancel" /\ pc[t] = "idle"

C20_FinalState ==
  (C20_WaitAndCancelOnly /\ \A t \in Threads : pc[t] = "idle") =>
    state = "CANCELLED"

C20_StableAfterCancel ==
  (C20_WaitAndCancelOnly /\ C20_CancelReturned /\ calls' = calls) =>
    state' = state

\* C20: when a thread is blocked in wait_until_finish() on a RUNNING handle
\* and another thread calls cancel(), the state once both calls have ended
\* is CANCELLED in every interleaving, and the state seen after cancel() has
\* returned does not change again.
C20_CancelWinsOverBlockedWait ==
  []C20_FinalState /\ [][C20_StableAfterCancel]_vars

=============================================================================
